---- MODULE Spec2Model ----
(***************************************************************************)
(* Module lifecycle runtime of alphaid-bot: ModuleBase (the Record/Keeper) *)
(* and the bulk operations of ModuleLoader.                                *)
(*                                                                         *)
(* JavaScript is single-threaded and run-to-completion: an async function  *)
(* runs synchronously up to its first `await`, and each continuation is a  *)
(* separate turn.  A call is a frame in `tasks`; one action of the model   *)
(* is one synchronous turn (a host call, the resumption of an `await`, or  *)
(* the return of a module hook), executed by Run over the frame stack.     *)
(***************************************************************************)
EXTENDS Integers, Sequences, FiniteSets, TLC

\* ---------------------------------------------------------------- bounds
NumKeepers == 3
MaxCalls == 3
MaxBulkCalls == 3
MaxChainCalls == 4
MaxPairCalls == 4

Keepers == 1..NumKeepers

\* ------------------------------------------------- ModuleLoadState (enum)
Prototype == "prototyped"
Constructed == "constructed"
Initializing == "initializing"
Initialized == "initialized"
Unloaded == "unloaded"
Failure == "error"

ModuleLoadState == {Prototype, Constructed, Initializing, Initialized, Unloaded, Failure}

VARIABLES
    dependencies,          \* ModuleBase._dependencies, per keeper (ordered)
    dependents,            \* ModuleBase._dependents, per keeper (ordered)
    errorListeners,        \* keepers that have an "error" listener attached
    state,                 \* ModuleBase._state
    base,                  \* ModuleBase._base: 0 is undefined, n the n-th instance
    instances,             \* number of instances made so far, per keeper
    CONSTRUCTION_LOCKER,
    INITIALIZATION_LOCKER,
    PENDING_STATES,
    tasks,                 \* the async calls in flight or settled in the last turn
    hookLog,               \* module hooks invoked and events emitted in the last turn
    reached,               \* phase events emitted so far, as a set
    calls,                 \* host calls made so far
    limit,                 \* the number of host calls the run is bounded to
    unhandled,             \* rejections of promises nobody awaited, in the last turn
    tree,                  \* the module tree: the manifest of each directory, in order
    registry,              \* ModuleLoader: _infos, _keepers, _allKeepers, ...
    callbacks              \* the callbacks handed to onInit / onConstruct so far

vars == <<dependencies, dependents, errorListeners, state, base, instances,
          CONSTRUCTION_LOCKER, INITIALIZATION_LOCKER, PENDING_STATES,
          tasks, hookLog, reached, calls, limit, unhandled, tree, registry,
          callbacks>>

\* ------------------------------------------------------------- graph help
RECURSIVE SetToSeq(_)
SetToSeq(S) ==
    IF S = {} THEN <<>>
    ELSE LET x == CHOOSE y \in S : \A z \in S : y <= z
         IN <<x>> \o SetToSeq(S \ {x})

RECURSIVE ReachFrom(_, _, _)
ReachFrom(g, S, n) ==
    IF n = 0 THEN S
    ELSE ReachFrom(g, S \cup UNION {g[x] : x \in S}, n - 1)

\* g[k] is the set of keepers k depends on
Acyclic(g) == \A k \in Keepers : k \notin ReachFrom(g, g[k], NumKeepers)

Graphs == {g \in [Keepers -> SUBSET Keepers] : Acyclic(g)}

allKeepers == registry.allKeepers

\* ---------------------------------------------------------------- frames
NewFrame(fn, k, reason, entry) ==
    [fn |-> fn, k |-> k, reason |-> reason, pc |-> "start", i |-> 1, wait |-> 0,
     status |-> "run", err |-> "none", thrown |-> "none", ret |-> "none",
     entry |-> entry, cnt |-> 0, awaited |-> FALSE, root |-> FALSE,
     hooked |-> FALSE, wrote |-> FALSE, fresh |-> FALSE]

Top(m) == m.stack[Len(m.stack)]
Pop(s) == SubSeq(s, 1, Len(s) - 1)

Goto(m, t, pc, i) == [m EXCEPT !.tasks[t].pc = pc, !.tasks[t].i = i]

Event(ev, k, reason) == [ev |-> ev, k |-> k, reason |-> reason]

\* ModulePrivateInterface.baseCheck(x) of keeper k: true, or it throws
baseCheck(m, k, x) == IF m.base[k] # x THEN "Invalid base" ELSE "true"

\* the instance a hook runs on: the one being made, or the one the keeper holds
Self(m, ev, k) == IF ev = "new" THEN m.inst[k] + 1 ELSE m.base[k]

\* the pending state that the wrapper of a hook asks for
PendingOf(ev) == IF ev = "init" THEN "initialization" ELSE "unload"

\* Decorators: the method that @initializationMethod / @unloadMethod puts in
\* place of the hook, called on instance x with the private interface of k
\* while the pending state of k is p: it throws, or it runs the wrapped body
guardedMethod(ev, held, p, x) ==
    IF held # x THEN "Invalid base"
    ELSE IF p # PendingOf(ev) THEN "NotPending"
    ELSE "ran"

\* frame t invokes a module hook, handing it the private interface; the log
\* also tells what baseCheck(this) gives when called from the hook and, for
\* init and unload, what a hook wrapped by the decorators does
Hook(m, t, ev, k, reason) ==
    [m EXCEPT !.log = @ \o <<Event(ev, k, reason),
                              Event("baseCheck", k, baseCheck(m, k, Self(m, ev, k)))>>
                        \o (IF ev = "new" THEN <<>>
                            ELSE <<Event("guarded", k,
                                         guardedMethod(ev, m.base[k], m.pend[k],
                                                       Self(m, ev, k)))>>),
              !.tasks[t].hooked = TRUE]

\* frame t assigns this._state (and this._base)
SetState(m, t, k, s) == [m EXCEPT !.state[k] = s, !.tasks[t].wrote = TRUE]

\* a callback runs: it finds the keeper in state s, with or without an instance
Called(c, s, b) == [c EXCEPT !.listening = FALSE, !.runs = @ + 1, !.seen = s, !.gotBase = b # 0]

\* EventEmitter.emit of a phase event: the listeners that `once` attached for
\* it run and are detached
Emit(m, ev, k) ==
    [m EXCEPT !.log = Append(@, Event(ev, k, "none")),
              !.reached = @ \cup {<<ev, k>>},
              !.once = [j \in 1..Len(@) |->
                           IF @[j].listening /\ @[j].ev = ev /\ @[j].k = k
                           THEN Called(@[j], m.state[k], m.base[k]) ELSE @[j]]]

\* the async function returns (resolved promise) or throws (rejected promise)
Finish(m, t, status, err) ==
    [m EXCEPT !.tasks[t].status = status, !.tasks[t].err = err,
              !.tasks[t].pc = "end", !.tasks[t].i = 1, !.tasks[t].wait = 0,
              !.tasks[t].thrown = "none", !.tasks[t].ret = "none",
              !.tasks[t].fresh = TRUE,
              !.stack = Pop(@),
              !.unhandled = IF status = "err" /\ ~m.tasks[t].awaited /\ ~m.tasks[t].root
                            THEN @ \cup {<<m.tasks[t].fn, m.tasks[t].k, err>>} ELSE @]

\* `await this._base.hook(...)`: the hook has been invoked, the frame is suspended
AwaitHook(m, t, pc) ==
    [m EXCEPT !.tasks[t].status = "hook", !.tasks[t].pc = pc, !.stack = Pop(@)]

\* the state a call finds: of its keeper, or of every keeper for a call on the loader
EntryState(m, k) == IF k = 0 THEN m.state ELSE m.state[k]

\* `await callee(...)`: the callee runs now, the caller resumes in a later turn
CallAwait(m, t, fn, k, reason, pc, i) ==
    LET c == Len(m.tasks) + 1
        f == [NewFrame(fn, k, reason, EntryState(m, k)) EXCEPT !.awaited = TRUE]
    IN [m EXCEPT !.tasks = Append([@ EXCEPT ![t].status = "await", ![t].wait = c,
                                            ![t].pc = pc, ![t].i = i], f),
                 !.stack = Append(Pop(@), c)]

\* `callee(...)` without await: the callee runs now, then the caller goes on
CallNoAwait(m, t, fn, k, reason, pc, i) ==
    LET c == Len(m.tasks) + 1
        f == NewFrame(fn, k, reason, EntryState(m, k))
    IN [m EXCEPT !.tasks = Append([@ EXCEPT ![t].pc = pc, ![t].i = i], f),
                 !.stack = Append(@, c)]

\* this.emit("error", {state: tag, ...})
EmitError(m, k, tag) == [m EXCEPT !.log = Append(@, Event("error", k, tag))]

\* ModuleLoaderEvent: the loader is an emitter of its own, so its events are
\* logged under the loader's name ("unloaded" is also a keeper's event)
BeforeConstruction == "loader:beforeConstruction"
PostConstruction == "loader:postContruction"
BeforeInitialization == "loader:beforeInitialization"
PostInitialization == "loader:postInitialization"
BeforeUnload == "loader:beforeUnload"
PostUnload == "loader:unloaded"

\* ModuleLoader.emit of a bulk event; the k of the event is the count it carries
LoaderEvent(m, ev, reason, count) == [m EXCEPT !.log = Append(@, Event(ev, count, reason))]

\* the unload hook of keeper k has returned a falsy value or has thrown
UnloadFailed(m, k) == [m EXCEPT !.reached = @ \cup {<<"unloadFailed", k>>}]

\* EventEmitter.emit("error", ...) throws when no "error" listener is attached
EmitErrorThrows(k) == k \notin errorListeners

\* an exception of an awaited call that the frame does not catch goes to its caller
Rethrow(m, t) == Finish(m, t, "err", "Propagated")

\* ------------------------------------------- the state guards of the phases
constructAllowed_Repeat(s) == s = Prototype \/ s = Constructed

constructAllowed(s) == s = Prototype

initializeAllowed(s) == s = Constructed

unloadAllowed(s) == s = Initialized \/ s = Constructed

\* ------------------------------------------- the lockers of the phases
\* CONSTRUCTION_LOCKER.has(this)
constructLocked(m, k) == k \in m.cl

initializeLocked_Never(m, k) == FALSE

\* INITIALIZATION_LOCKER.has(this)
initializeLocked(m, k) == k \in m.il

\* --------------------------------------------------- ModuleBase.construct
\* the engine's call stack holds so many calls nested in one another; the
\* call that would exceed it throws a RangeError in its caller
MaxCallStack == 6

\* the calls that frame t is nested in: `await callee()` runs the callee
\* inside its caller, which waits for it
RECURSIVE Nesting(_, _)
Nesting(m, t) ==
    LET callers == {p \in 1..Len(m.tasks) :
                       m.tasks[p].status = "await" /\ m.tasks[p].wait = t}
    IN IF callers = {} THEN 1 ELSE 1 + Nesting(m, CHOOSE p \in callers : TRUE)

construct(m, t) ==
    LET f == m.tasks[t]
        k == f.k
        deps == dependencies[k]
    IN
    CASE f.pc = "start" ->
            IF ~constructAllowed(m.state[k]) THEN Finish(m, t, "err", "NotPrototype")
            ELSE IF constructLocked(m, k) THEN Finish(m, t, "err", "AlreadyConstructing")
            ELSE Goto(m, t, "deps", 1)
      [] f.pc = "deps" ->
            IF f.thrown # "none" THEN Rethrow(m, t)
            ELSE IF f.i > Len(deps) THEN Goto(m, t, "new", f.i)
            ELSE IF m.state[deps[f.i]] = Prototype
                 THEN (IF Nesting(m, t) >= MaxCallStack
                       THEN Finish(m, t, "err", "RangeError")
                       ELSE CallAwait(m, t, "construct", deps[f.i], "none", "deps", f.i + 1))
            ELSE IF m.state[deps[f.i]] = Failure
                 THEN Finish(m, t, "err", "DependencyFailed")
            ELSE Goto(m, t, "deps", f.i + 1)
      [] f.pc = "new" ->
            LET m1 == Hook(m, t, "new", k, "none")
            IN IF m.cr = "ok"
               THEN Finish(Emit([SetState(m1, t, k, Constructed)
                                    EXCEPT !.inst[k] = @ + 1,
                                           !.base[k] = m.inst[k] + 1,
                                           !.cl = @ \ {k}],
                                "constructed", k),
                           t, "ok", "none")
               ELSE IF EmitErrorThrows(k)
                    THEN Finish(EmitError(m1, k, "construct"), t, "err", "UnhandledErrorEvent")
               ELSE Finish(SetState(EmitError(m1, k, "construct"), t, k, Failure),
                           t, "err", "ConstructionFailure")

\* -------------------------------------------------- ModuleBase.initialize
initialize(m, t) ==
    LET f == m.tasks[t]
        k == f.k
        deps == dependencies[k]
    IN
    CASE f.pc = "start" ->
            IF ~initializeAllowed(m.state[k]) THEN Finish(m, t, "err", "NotConstructed")
            ELSE IF initializeLocked(m, k) THEN Finish(m, t, "err", "AlreadyInitializing")
            ELSE Goto([m EXCEPT !.il = @ \cup {k}], t, "deps", 1)
      [] f.pc = "deps" ->
            IF f.thrown # "none" THEN Rethrow(m, t)
            ELSE IF f.i > Len(deps) THEN Goto(m, t, "init", f.i)
            ELSE IF m.state[deps[f.i]] = Prototype
                 THEN CallAwait(m, t, "construct", deps[f.i], "none", "deps2", f.i)
            ELSE Goto(m, t, "deps2", f.i)
      [] f.pc = "deps2" ->
            IF f.thrown # "none" THEN Rethrow(m, t)
            ELSE IF m.state[deps[f.i]] = Constructed
                 THEN CallAwait(m, t, "initialize", deps[f.i], "none", "deps", f.i + 1)
            ELSE IF m.state[deps[f.i]] = Failure
                 THEN Finish(m, t, "err", "DependencyFailed")
            ELSE Goto(m, t, "deps", f.i + 1)
      [] f.pc = "init" ->
            LET m1 == [m EXCEPT !.pend[k] = "initialization"]
            IN IF m.base[k] # 0
               THEN AwaitHook(Hook(m1, t, "init", k, "none"), t, "initRet")
               ELSE Goto(m1, t, "initDone", f.i)
      [] f.pc = "initRet" ->
            IF f.ret = "throw"
            THEN IF EmitErrorThrows(k)
                 THEN Finish(EmitError(m, k, "construct"), t, "err", "UnhandledErrorEvent")
                 ELSE Finish(EmitError(m, k, "construct"), t, "err", "InitializationFailure")
            ELSE Goto(m, t, "initDone", f.i)
      [] f.pc = "initDone" ->
            Finish(Emit([SetState(m, t, k, Initialized)
                            EXCEPT !.il = @ \ {k},
                                   !.pend[k] = "none"],
                        "initialized", k),
                   t, "ok", "none")

\* ------------------------------------------------------ ModuleBase.unload
unload(m, t) ==
    LET f == m.tasks[t]
        k == f.k
    IN
    CASE f.pc = "start" ->
            IF ~unloadAllowed(m.state[k])
            THEN Finish(m, t, "err", "NotLoaded")
            ELSE Goto(m, t, "dependents", 1)
      [] f.pc = "dependents" ->
            IF f.i > Len(dependents[k]) THEN Goto(m, t, "unloading", f.i)
            ELSE CallNoAwait(m, t, "unload", dependents[k][f.i], "dependent_",
                             "dependents", f.i + 1)
      [] f.pc = "unloading" ->
            LET m1 == [m EXCEPT !.pend[k] = "unload"]
            IN IF m.base[k] = 0
               THEN IF EmitErrorThrows(k)
                    THEN Finish(EmitError(m1, k, "unload"), t, "err", "UnhandledErrorEvent")
                    ELSE Goto(SetState(EmitError(m1, k, "unload"), t, k, Unloaded),
                              t, "unloaded", f.i)
               ELSE AwaitHook(Hook(m1, t, "unload", k, f.reason), t, "unloadRet")
      [] f.pc = "unloadRet" ->
            IF f.ret = "true"
            THEN Goto([SetState(m, t, k, Unloaded) EXCEPT !.base[k] = 0], t, "unloaded", f.i)
            ELSE IF EmitErrorThrows(k)
                 THEN Finish(EmitError(UnloadFailed(m, k), k, "unload#unload"),
                             t, "err", "UnhandledErrorEvent")
            ELSE Goto(EmitError(UnloadFailed(m, k), k, "unload#unload"), t, "unloaded", f.i)
      [] f.pc = "unloaded" ->
            Finish(Emit([m EXCEPT !.pend[k] = "none"], "unloaded", k), t, "ok", "none")

\* ------------------------------------------------ ModuleLoader.constructAll
constructAll(m, t) ==
    LET f == m.tasks[t]
    IN
    CASE f.pc = "start" ->
            Goto(LoaderEvent(m, BeforeConstruction, "none", 0), t, "loop", 1)
      [] f.pc = "loop" ->
            IF f.i > Len(allKeepers)
            THEN Finish(LoaderEvent(m, PostConstruction, "none", f.cnt), t, "ok", "none")
            ELSE IF m.state[allKeepers[f.i]] # Prototype THEN Goto(m, t, "loop", f.i + 1)
            ELSE CallAwait(m, t, "construct", allKeepers[f.i], "none", "counted", f.i)
      [] f.pc = "counted" ->
            IF f.thrown # "none" THEN Finish(m, t, "err", "CannotBeConstructed")
            ELSE Goto([m EXCEPT !.tasks[t].cnt = @ + 1], t, "loop", f.i + 1)

\* ----------------------------------------------------- ModuleLoader.initAll
initAll(m, t) ==
    LET f == m.tasks[t]
    IN
    CASE f.pc = "start" ->
            Goto(LoaderEvent(m, BeforeInitialization, "none", 0), t, "loop", 1)
      [] f.pc = "loop" ->
            IF f.i > Len(allKeepers)
            THEN Finish(LoaderEvent(m, PostInitialization, "none", f.cnt), t, "ok", "none")
            ELSE IF m.state[allKeepers[f.i]] # Constructed THEN Goto(m, t, "loop", f.i + 1)
            ELSE CallAwait(m, t, "initialize", allKeepers[f.i], "none", "counted", f.i)
      [] f.pc = "counted" ->
            IF f.thrown # "none" THEN Finish(m, t, "err", "CannotBeInitialized")
            ELSE Goto([m EXCEPT !.tasks[t].cnt = @ + 1], t, "loop", f.i + 1)

\* --------------------------------------------------- ModuleLoader.unloadAll
unloadAll(m, t) ==
    LET f == m.tasks[t]
    IN
    CASE f.pc = "start" ->
            Goto(LoaderEvent(m, BeforeUnload, f.reason, 0), t, "loop", 1)
      [] f.pc = "loop" ->
            IF f.i > Len(allKeepers)
            THEN Finish(LoaderEvent(m, PostUnload, f.reason, f.cnt), t, "ok", "none")
            ELSE IF m.state[allKeepers[f.i]] # Initialized THEN Goto(m, t, "loop", f.i + 1)
            ELSE CallAwait(m, t, "unload", allKeepers[f.i], f.reason, "counted", f.i)
      [] f.pc = "counted" ->
            IF f.thrown # "none" THEN Rethrow(m, t)
            ELSE Goto([m EXCEPT !.tasks[t].cnt = @ + 1], t, "loop", f.i + 1)

\* ------------------------------------------------- one synchronous turn
Step(m) ==
    LET t == Top(m)
        fn == m.tasks[t].fn
    IN CASE fn = "construct" -> construct(m, t)
         [] fn = "initialize" -> initialize(m, t)
         [] fn = "unload" -> unload(m, t)
         [] fn = "constructAll" -> constructAll(m, t)
         [] fn = "initAll" -> initAll(m, t)
         [] fn = "unloadAll" -> unloadAll(m, t)

RECURSIVE Run(_)
Run(m) == IF m.stack = <<>> THEN m ELSE Run(Step(m))

\* frames that settled in an earlier turn and that no frame still awaits are dropped
Live(ts, t) ==
    \/ ts[t].status \notin {"ok", "err"}
    \/ \E p \in 1..Len(ts) : ts[p].status = "await" /\ ts[p].wait = t

NewIndex(ts, t) == Cardinality({u \in 1..t : Live(ts, u)})

RECURSIVE Compact(_, _)
Compact(ts, t) ==
    IF t > Len(ts) THEN <<>>
    ELSE (IF Live(ts, t)
          THEN <<[ts[t] EXCEPT !.wait = IF @ = 0 THEN 0 ELSE NewIndex(ts, @),
                               !.fresh = FALSE]>>
          ELSE <<>>) \o Compact(ts, t + 1)

\* the machine at the start of a turn in which `new` (if reached) does cr
Machine(ts, cr) ==
    [state |-> state, base |-> base, inst |-> instances,
     cl |-> CONSTRUCTION_LOCKER, il |-> INITIALIZATION_LOCKER, pend |-> PENDING_STATES,
     tasks |-> Compact(ts, 1), log |-> <<>>, reached |-> reached,
     unhandled |-> {}, stack |-> <<>>, cr |-> cr, once |-> callbacks]

HasNew(m) == \E j \in 1..Len(m.log) : m.log[j].ev = "new"

\* a turn never reaches more than one `new`; the outcome of `new` matters only if reached
Outcomes(m) ==
    LET ok == Run([m EXCEPT !.cr = "ok"])
    IN IF HasNew(ok) THEN {ok, Run([m EXCEPT !.cr = "throw"])} ELSE {ok}

Store(m) ==
    /\ state' = m.state
    /\ base' = m.base
    /\ instances' = m.inst
    /\ CONSTRUCTION_LOCKER' = m.cl
    /\ INITIALIZATION_LOCKER' = m.il
    /\ PENDING_STATES' = m.pend
    /\ tasks' = m.tasks
    /\ hookLog' = m.log
    /\ reached' = m.reached
    /\ unhandled' = m.unhandled
    /\ callbacks' = m.once
    /\ UNCHANGED <<dependencies, dependents, errorListeners, limit, tree, registry>>

\* the host (or a module) calls fn on keeper k: the call runs up to its first await
Invoke(fn, k, reason) ==
    LET m == Machine(tasks, "ok")
        c == Len(m.tasks) + 1
        f == [NewFrame(fn, k, reason, EntryState(m, k)) EXCEPT !.root = TRUE]
    IN \E n \in Outcomes([m EXCEPT !.tasks = Append(@, f), !.stack = <<c>>]) : Store(n)

\* ------------------------------------------------------------------- Init
\* the loader before the first rebuildRegistry(): no info, no keeper
NoRegistry ==
    [names |-> <<>>, infos |-> <<>>, keepers |-> <<>>, allKeepers |-> <<>>,
     infoMappedKeepers |-> {}, info |-> <<>>, gen |-> 0,
     error |-> "none", errorAt |-> 0, errorMod |-> "none", errorDep |-> "none"]

\* the state after rebuildRegistry() has linked graph g: every keeper a prototype
InitWith(gs, n) ==
    /\ tree = <<>>
    /\ registry = [NoRegistry EXCEPT !.allKeepers = [i \in Keepers |-> i], !.gen = 1]
    /\ \E g \in gs :
          /\ dependencies = [k \in Keepers |-> SetToSeq(g[k])]
          /\ dependents = [k \in Keepers |-> SetToSeq({j \in Keepers : k \in g[j]})]
    /\ errorListeners \in {{}, Keepers}
    /\ state = [k \in Keepers |-> Prototype]
    /\ base = [k \in Keepers |-> 0]
    /\ instances = [k \in Keepers |-> 0]
    /\ CONSTRUCTION_LOCKER = {}
    /\ INITIALIZATION_LOCKER = {}
    /\ PENDING_STATES = [k \in Keepers |-> "none"]
    /\ tasks = <<>>
    /\ hookLog = <<>>
    /\ reached = {}
    /\ calls = 0
    /\ limit = n
    /\ unhandled = {}
    /\ callbacks = <<>>

Init == InitWith(Graphs, MaxCalls)

InitBulk == InitWith(Graphs, MaxBulkCalls)

\* keeper 2 depends on keeper 1, keeper 3 stands alone
PairGraph == [k \in Keepers |-> IF k = 2 THEN {1} ELSE {}]

InitPair == InitWith({PairGraph}, MaxPairCalls)

\* the graphs in which the three keepers form one chain, in any order of the list
ChainGraphs == {g \in Graphs : \E a, b, c \in Keepers :
                   /\ {a, b, c} = Keepers
                   /\ g[a] = {} /\ g[b] = {a} /\ g[c] = {b}}

InitChain == InitWith(ChainGraphs, MaxChainCalls)

\* ---------------------------------------------------------------- actions
HookResults == {"ok", "throw", "true", "false"}
TaskIds == 1..Len(tasks)

CallConstruct(k) ==
    /\ calls < limit
    /\ calls' = calls + 1
    /\ Invoke("construct", k, "none")

CallInitialize(k) ==
    /\ calls < limit
    /\ calls' = calls + 1
    /\ Invoke("initialize", k, "none")

CallUnload(k) ==
    /\ calls < limit
    /\ calls' = calls + 1
    /\ Invoke("unload", k, "unload")

BulkIdle == \A t \in TaskIds :
               tasks[t].fn \in {"constructAll", "initAll", "unloadAll"}
                   => tasks[t].status \in {"ok", "err"}

CallConstructAll ==
    /\ calls < limit
    /\ BulkIdle
    /\ calls' = calls + 1
    /\ Invoke("constructAll", 0, "none")

CallInitAll ==
    /\ calls < limit
    /\ BulkIdle
    /\ calls' = calls + 1
    /\ Invoke("initAll", 0, "none")

CallUnloadAll ==
    /\ calls < limit
    /\ BulkIdle
    /\ calls' = calls + 1
    /\ Invoke("unloadAll", 0, "modloader_default")

\* the promise a frame awaits has settled: the frame goes on in a new turn
Resume(t) ==
    /\ tasks[t].status = "await"
    /\ tasks[tasks[t].wait].status \in {"ok", "err"}
    /\ UNCHANGED calls
    /\ LET ts == [tasks EXCEPT
                    ![t].status = "run",
                    ![t].wait = 0,
                    ![t].thrown = IF tasks[tasks[t].wait].status = "err"
                                  THEN tasks[tasks[t].wait].err ELSE "none"]
           m == Machine(ts, "ok")
       IN \E n \in Outcomes([m EXCEPT !.stack = <<NewIndex(ts, t)>>]) : Store(n)

\* a module hook (init, unload) settles with result r
HookReturn(t, r) ==
    /\ tasks[t].status = "hook"
    /\ \/ tasks[t].fn = "initialize" /\ r \in {"ok", "throw"}
       \/ tasks[t].fn = "unload" /\ r \in {"true", "false", "throw"}
    /\ UNCHANGED calls
    /\ LET ts == [tasks EXCEPT ![t].status = "run", ![t].ret = r]
           m == Machine(ts, "ok")
       IN \E n \in Outcomes([m EXCEPT !.stack = <<NewIndex(ts, t)>>]) : Store(n)

Next ==
    \/ \E k \in Keepers : CallConstruct(k)
    \/ \E k \in Keepers : CallInitialize(k)
    \/ \E k \in Keepers : CallUnload(k)
    \/ \E t \in TaskIds : Resume(t)
    \/ \E t \in TaskIds, r \in HookResults : HookReturn(t, r)

Spec == Init /\ [][Next]_vars

NextBulk ==
    \/ CallConstructAll
    \/ CallInitAll
    \/ CallUnloadAll
    \/ \E t \in TaskIds : Resume(t)
    \/ \E t \in TaskIds, r \in HookResults : HookReturn(t, r)

SpecBulk == InitBulk /\ [][NextBulk]_vars

SpecPair == InitPair /\ [][Next]_vars

SpecChain == InitChain /\ [][NextBulk]_vars

\* ------------------------------------------------- onInit and onConstruct
MaxWaitCalls == 3
MaxCallbacks == 1

\* the callback is called at once, or `once` attaches it to the event
Subscribe(ev, k, immediate) ==
    LET c == [ev |-> ev, k |-> k, found |-> state[k], hadBase |-> base[k] # 0,
              listening |-> TRUE, runs |-> 0, seen |-> "none", gotBase |-> FALSE]
    IN /\ callbacks' = Append(callbacks, IF immediate THEN Called(c, state[k], base[k]) ELSE c)
       /\ tasks' = Compact(tasks, 1)
       /\ hookLog' = <<>>
       /\ unhandled' = {}
       /\ UNCHANGED <<dependencies, dependents, errorListeners, state, base, instances,
                      CONSTRUCTION_LOCKER, INITIALIZATION_LOCKER, PENDING_STATES,
                      reached, calls, limit, tree, registry>>

\* ModuleBase.onInit(callback)
OnInit(k) ==
    /\ Len(callbacks) < MaxCallbacks
    /\ Subscribe("initialized", k, state[k] = Initialized /\ base[k] # 0)

\* ModuleBase.onConstruct(callback)
OnConstruct(k) ==
    /\ Len(callbacks) < MaxCallbacks
    /\ Subscribe("constructed", k, state[k] = Constructed /\ base[k] # 0)

\* the wrapped init or unload method of the instance of keeper k is called,
\* with the private interface, by something other than the keeper
StrayCall(ev, k) ==
    /\ base[k] # 0
    /\ hookLog' = <<Event(ev, k, guardedMethod(IF ev = "stray:init" THEN "init" ELSE "unload",
                                                base[k], PENDING_STATES[k], base[k]))>>
    /\ tasks' = Compact(tasks, 1)
    /\ unhandled' = {}
    /\ UNCHANGED <<dependencies, dependents, errorListeners, state, base, instances,
                   CONSTRUCTION_LOCKER, INITIALIZATION_LOCKER, PENDING_STATES,
                   reached, calls, limit, tree, registry, callbacks>>

StrayInit(k) ==
    /\ state[k] \in {Constructed, Initialized}
    /\ StrayCall("stray:init", k)

StrayUnload(k) ==
    /\ state[k] \in {Constructed, Initialized}
    /\ StrayCall("stray:unload", k)

InitWait == InitWith({PairGraph}, MaxWaitCalls)

NextWait ==
    \/ \E k \in Keepers : CallConstruct(k)
    \/ \E k \in Keepers : CallInitialize(k)
    \/ \E k \in Keepers : CallUnload(k)
    \/ \E k \in Keepers : OnInit(k)
    \/ \E k \in Keepers : OnConstruct(k)
    \/ \E k \in Keepers : StrayInit(k)
    \/ \E k \in Keepers : StrayUnload(k)
    \/ \E t \in TaskIds : Resume(t)
    \/ \E t \in TaskIds, r \in HookResults : HookReturn(t, r)

SpecWait == InitWait /\ [][NextWait]_vars

\* ----------------------------------------------------------- vocabulary
\* frame t returned or threw in the last turn
Settled(t) == tasks[t].fresh /\ tasks[t].status \in {"ok", "err"}

Range(q) == {q[j] : j \in 1..Len(q)}

LogIds == 1..Len(hookLog)

\* hook ev of keeper k was invoked in the last turn
Invoked(ev, k) == \E j \in LogIds : hookLog[j].ev = ev /\ hookLog[j].k = k

Loaded(k) == state[k] \in {Constructed, Initialized}

\* an unload() call on keeper k has not returned yet
UnloadInFlight(k) ==
    \E t \in TaskIds : tasks[t].fn = "unload" /\ tasks[t].k = k
                       /\ tasks[t].status \notin {"ok", "err"}

\* ------------------------------------------------ ModuleLoader registry
MaxModules == 3
MaxRebuilds == 1
MaxLinkCalls == 2

\* versions are <<major, minor>>, standing for major.minor.0
Versions == {<<1, 0>>, <<1, 2>>, <<2, 0>>}

\* semver.lte(a, b)
semverLte(a, b) == a[1] < b[1] \/ (a[1] = b[1] /\ a[2] <= b[2])

\* semver.satisfies(version, "^M.m.0") for M >= 1
satisfies(version, range) == version[1] = range[1] /\ version[2] >= range[2]

highestVersion(versions, range) ==
    CHOOSE v \in Range(versions) : \A w \in Range(versions) : semverLte(w, v)

minSatisfying(versions, range) ==
    LET ok == {v \in Range(versions) : satisfies(v, range)}
    IN IF ok = {} THEN <<>> ELSE CHOOSE v \in ok : \A w \in ok : semverLte(v, w)

\* semver.maxSatisfying(versions, range); <<>> stands for null
maxSatisfying(versions, range) ==
    LET ok == {v \in Range(versions) : satisfies(v, range)}
    IN IF ok = {} THEN <<>> ELSE CHOOSE v \in ok : \A w \in ok : semverLte(w, v)

optional_Always(verRange) == TRUE

\* verRange.endsWith("?")
optional(verRange) == verRange.mark = "?"

\* the module names of the tree match moduleNameRegexp
moduleNameRegexp(name) == name \in {"mod-a", "mod-b"}

RECURSIVE Flatten(_)
Flatten(ss) == IF ss = <<>> THEN <<>> ELSE Head(ss) \o Flatten(Tail(ss))

\* a path is the sequence of its segments; the i-th directory that
\* discoveryUtils.subdirectories lists is /cogs/<DirNames[i]>
DirNames == <<"d1", "d2", "d3">>
Directory(i) == <<"cogs", DirNames[i]>>

\* path.join: ".." steps out of the segment before it
RECURSIVE pathJoin(_, _)
pathJoin(origin, segs) ==
    IF segs = <<>> THEN origin
    ELSE IF Head(segs) = ".."
         THEN pathJoin(IF origin = <<>> THEN origin ELSE SubSeq(origin, 1, Len(origin) - 1),
                       Tail(segs))
    ELSE pathJoin(Append(origin, Head(segs)), Tail(segs))

\* discoveryUtils.normalizeFileName(fileName, origin)
normalizeFileName(fileName, origin) ==
    IF fileName.kind = "abs" THEN fileName.segs ELSE pathJoin(origin, fileName.segs)

\* String.prototype.startsWith on segment names
nameStartsWith(a, b) == a = b \/ <<a, b>> \in {<<"d12", "d1">>}

\* path.startsWith(origin): a test on the characters of the two strings
startsWith(path, origin) ==
    /\ Len(path) >= Len(origin)
    /\ \A j \in 1..(Len(origin) - 1) : path[j] = origin[j]
    /\ nameStartsWith(path[Len(origin)], origin[Len(origin)])

\* discoveryUtils.pathPrecaution(path, origin), an async function: what it
\* throws is the rejection of the promise it returns
pathPrecaution(path, origin) ==
    IF ~startsWith(path, origin) \/ path = origin THEN "rejected" ELSE "resolved"

\* semver.valid(version): <<>> stands for a version that does not parse
semverValid(version) == version # <<>>

\* ModuleDiscovery.moduleInDirectory on a directory whose mod.yml holds the
\* manifest: the descriptor, a new object each time, or nothing. What is
\* thrown inside the try (by YAML.safeLoad, for the version, for the main)
\* is caught. The promise of pathPrecaution is not awaited.
moduleInDirectory(directory, manifest, id) ==
    IF manifest.yaml = "missing" THEN <<>>
    ELSE IF manifest.yaml = "malformed" THEN <<>>
    ELSE IF ~semverValid(manifest.version) THEN <<>>
    ELSE IF manifest.main.kind = "null" THEN <<>>
    ELSE LET normalizedPath == normalizeFileName(manifest.main, directory)
         IN <<[oid |-> id] @@ [manifest EXCEPT !.main = normalizedPath]>>

\* a walk that ends at the first directory that yields no descriptor
RECURSIVE Discover_Aborting(_, _)
Discover_Aborting(mods, gen) ==
    LET n == Len(mods)
        last == moduleInDirectory(Directory(n), mods[n], <<gen, n>>)
    IN IF n = 0 THEN <<>>
       ELSE LET before == Discover_Aborting(SubSeq(mods, 1, n - 1), gen)
            IN IF Len(before) < n - 1 \/ last = <<>> THEN before ELSE before \o last

\* ModuleDiscovery.discover on the directories of the tree
Discover(mods, gen) ==
    Flatten([i \in 1..Len(mods) |-> moduleInDirectory(Directory(i), mods[i], <<gen, i>>)])

\* the promises of pathPrecaution that reject with nobody to catch them
PathRejections(mods) ==
    {<<"pathPrecaution", i, "IncorrectPath">> :
        i \in {j \in 1..Len(mods) :
                 /\ moduleInDirectory(Directory(j), mods[j], <<0, j>>) # <<>>
                 /\ pathPrecaution(normalizeFileName(mods[j].main, Directory(j)),
                                   Directory(j)) = "rejected"}}

RECURSIVE discovered_KeepAll(_, _, _)
discovered_KeepAll(mods, i, acc) ==
    IF i > Len(mods) THEN acc
    ELSE discovered_KeepAll(mods, i + 1,
             IF mods[i].name \in DOMAIN acc.by
             THEN [acc EXCEPT !.by[mods[i].name] = Append(@, mods[i])]
             ELSE [acc EXCEPT !.names = Append(@, mods[i].name),
                              !.by = @ @@ (mods[i].name :> <<mods[i]>>)])

\* rebuildRegistry: the loop that groups the modules by name and drops repeated versions
RECURSIVE discovered(_, _, _)
discovered(mods, i, acc) ==
    IF i > Len(mods) \/ acc.error # "none" THEN acc
    ELSE LET mod == mods[i]
         IN IF ~moduleNameRegexp(mod.name)
            THEN [acc EXCEPT !.error = "IncorrectName"]
            ELSE IF mod.name \notin DOMAIN acc.by
            THEN discovered(mods, i + 1,
                            [acc EXCEPT !.names = Append(@, mod.name),
                                        !.by = @ @@ (mod.name :> <<mod>>)])
            ELSE IF \E j \in 1..Len(acc.by[mod.name]) :
                        acc.by[mod.name][j].version = mod.version
            THEN discovered(mods, i + 1, acc)
            ELSE discovered(mods, i + 1, [acc EXCEPT !.by[mod.name] = Append(@, mod)])

highestOf_First(discovery, i, highest) == highest

\* rebuildRegistry: the highest version among the descriptors with "no-alternatives"
RECURSIVE highestOf(_, _, _)
highestOf(discovery, i, highest) ==
    IF i > Len(discovery) THEN highest
    ELSE IF ~discovery[i].noAlternatives THEN highestOf(discovery, i + 1, highest)
    ELSE IF semverLte(discovery[i].version, highest.version)
         THEN highestOf(discovery, i + 1, highest)
    ELSE highestOf(discovery, i + 1, discovery[i])

\* rebuildRegistry: what is stored in _infos for one name
collapse(discovery) ==
    LET nonAlternative == SelectSeq(discovery, LAMBDA d : d.noAlternatives)
    IN IF Len(nonAlternative) > 1
       THEN Append(SelectSeq(discovery, LAMBDA d : ~d.noAlternatives),
                   highestOf(discovery, 1, nonAlternative[1]))
       ELSE discovery

\* ModuleLoader._prototypeAll, from the i-th name of _infos on
RECURSIVE prototypeAll(_, _)
prototypeAll(r, i) ==
    IF i > Len(r.names) THEN r
    ELSE LET name == r.names[i]
             modInfos == r.infos[name]
             first == Len(r.allKeepers)
             made == [x \in 1..Len(modInfos) |-> first + x]
         IN IF name \in DOMAIN r.keepers THEN prototypeAll(r, i + 1)
            ELSE prototypeAll(
                   [r EXCEPT !.keepers = @ @@ (name :> made),
                             !.allKeepers = @ \o made,
                             !.info = @ \o modInfos,
                             !.infoMappedKeepers =
                                 @ \cup {<<modInfos[x].oid, first + x>> : x \in 1..Len(modInfos)}],
                   i + 1)

\* the (keeper, dependency entry) pairs in the order _linkAll visits them
linkWork(r) ==
    Flatten([i \in 1..Len(r.names) |->
        LET modKeepers == r.keepers[r.names[i]]
        IN Flatten([j \in 1..Len(modKeepers) |->
               LET deps == r.info[modKeepers[j]].dependencies
               IN [x \in 1..Len(deps) |-> [k |-> modKeepers[j], e |-> deps[x]]]])])

addDependency_OneWay(L, k, d) == [L EXCEPT !.dependencies[k] = Append(@, d)]

\* ModuleBase.addDependency (with addDependent)
addDependency(L, k, d) ==
    [L EXCEPT !.dependencies[k] = Append(@, d), !.dependents[d] = Append(@, k)]

\* ModuleLoader._linkAll, from the i-th pair of the walk on
RECURSIVE linkAll(_, _, _)
linkAll(L, work, i) ==
    IF i > Len(work) THEN L
    ELSE LET k == work[i].k
             depName == work[i].e.name
             verRange == work[i].e.verRange
             r == L.r
             throw(kind) == [L EXCEPT !.r.error = kind,
                                      !.r.errorAt = k,
                                      !.r.errorMod = r.info[k].name,
                                      !.r.errorDep = depName]
         IN IF depName \notin DOMAIN r.infos
            THEN (IF ~optional(verRange) THEN throw("CannotBeFound")
                  ELSE linkAll(L, work, i + 1))
            ELSE LET depInfo == r.infos[depName]
                     depVersions == [x \in 1..Len(depInfo) |-> depInfo[x].version]
                     satisfyingVer == maxSatisfying(depVersions, verRange.caret)
                 IN IF satisfyingVer = <<>>
                    THEN (IF ~optional(verRange) THEN throw("Unsatisfied")
                          ELSE linkAll(L, work, i + 1))
                    ELSE LET x == CHOOSE y \in 1..Len(depInfo) :
                                     /\ depInfo[y].version = satisfyingVer
                                     /\ \A z \in (y + 1)..Len(depInfo) :
                                           depInfo[z].version # satisfyingVer
                             depKeeper == {p \in r.infoMappedKeepers : p[1] = depInfo[x].oid}
                         IN IF depKeeper = {} THEN throw("InvalidState")
                            ELSE linkAll(addDependency(L, k, (CHOOSE p \in depKeeper : TRUE)[2]),
                                         work, i + 1)

\* ModuleLoader.rebuildRegistry on the modules that the discovery returned
rebuildRegistry(L, mods) ==
    LET r == [L.r EXCEPT !.gen = @ + 1, !.error = "none", !.errorAt = 0,
                         !.errorMod = "none", !.errorDep = "none"]
        d == discovered(mods, 1, [names |-> <<>>, by |-> <<>>, error |-> "none"])
        added == SelectSeq(d.names, LAMBDA n : n \notin DOMAIN r.infos)
        r1 == [r EXCEPT !.names = @ \o added,
                        !.infos = [n \in DOMAIN @ \cup Range(d.names) |->
                                      IF n \in Range(d.names) THEN collapse(d.by[n])
                                      ELSE r.infos[n]]]
        r2 == prototypeAll(r1, 1)
    IN IF d.error # "none" THEN [L EXCEPT !.r = [r EXCEPT !.error = d.error]]
       ELSE linkAll([L EXCEPT !.r = r2], linkWork(r2), 1)

\* the host calls rebuildRegistry(), which discovers the modules of the tree
RebuildRegistry ==
    /\ registry.gen < MaxRebuilds
    /\ LET L == rebuildRegistry([r |-> registry, dependencies |-> dependencies,
                                 dependents |-> dependents],
                                Discover(tree, registry.gen + 1))
       IN /\ registry' = L.r
          /\ dependencies' = L.dependencies
          /\ dependents' = L.dependents
    /\ tasks' = Compact(tasks, 1)
    /\ hookLog' = <<>>
    /\ unhandled' = PathRejections(tree)
    /\ UNCHANGED <<errorListeners, state, base, instances, CONSTRUCTION_LOCKER,
                   INITIALIZATION_LOCKER, PENDING_STATES, reached, calls, limit, tree,
                   callbacks>>

\* the "dependencies" of a manifest: at most one entry, on mod-a
LinkEntries ==
    {[name |-> "mod-a", verRange |-> [caret |-> c, mark |-> q]] :
        c \in {<<1, 0>>, <<2, 0>>}, q \in {"", "?"}}

\* the descriptors of the trees: versions of mod-a, and mod-b@1.0.0 that may depend on mod-a
IndexJs == [kind |-> "rel", segs |-> <<"index.js">>]

LinkPool ==
    {[name |-> "mod-a", version |-> v, noAlternatives |-> f, dependencies |-> <<>>,
      main |-> IndexJs, yaml |-> "ok"] : v \in Versions, f \in BOOLEAN}
    \cup {[name |-> "mod-b", version |-> <<1, 0>>, noAlternatives |-> FALSE,
           dependencies |-> ds, main |-> IndexJs, yaml |-> "ok"] :
              ds \in {<<>>} \cup {<<e>> : e \in LinkEntries}}

Trees(pool, n) == UNION {[1..l -> pool] : l \in 1..n}

InitLink ==
    /\ tree \in Trees(LinkPool, MaxModules)
    /\ registry = NoRegistry
    /\ dependencies = [k \in Keepers |-> <<>>]
    /\ dependents = [k \in Keepers |-> <<>>]
    /\ errorListeners \in {{}, Keepers}
    /\ state = [k \in Keepers |-> Prototype]
    /\ base = [k \in Keepers |-> 0]
    /\ instances = [k \in Keepers |-> 0]
    /\ CONSTRUCTION_LOCKER = {}
    /\ INITIALIZATION_LOCKER = {}
    /\ PENDING_STATES = [k \in Keepers |-> "none"]
    /\ tasks = <<>>
    /\ hookLog = <<>>
    /\ reached = {}
    /\ calls = 0
    /\ limit = MaxLinkCalls
    /\ unhandled = {}
    /\ callbacks = <<>>

NextLink ==
    \/ RebuildRegistry
    \/ CallConstructAll
    \/ CallInitAll
    \/ \E t \in TaskIds : Resume(t)
    \/ \E t \in TaskIds, r \in HookResults : HookReturn(t, r)

SpecLink == InitLink /\ [][NextLink]_vars

\* ------------------------------------------------ modules that depend in a circle
\* a dependency entry "^1.0.0" on the module of that name
CycleEntry(name) == [name |-> name, verRange |-> [caret |-> <<1, 0>>, mark |-> ""]]

\* mod-a@1.0.0 that may depend on itself or on mod-b, and mod-b@1.0.0 that may
\* depend on mod-a
CyclePool ==
    {[name |-> "mod-a", version |-> <<1, 0>>, noAlternatives |-> FALSE,
      dependencies |-> ds, main |-> IndexJs, yaml |-> "ok"] :
         ds \in {<<>>, <<CycleEntry("mod-a")>>, <<CycleEntry("mod-b")>>}}
    \cup {[name |-> "mod-b", version |-> <<1, 0>>, noAlternatives |-> FALSE,
           dependencies |-> ds, main |-> IndexJs, yaml |-> "ok"] :
              ds \in {<<>>, <<CycleEntry("mod-a")>>}}

InitCycle ==
    /\ tree \in Trees(CyclePool, MaxModules)
    /\ registry = NoRegistry
    /\ dependencies = [k \in Keepers |-> <<>>]
    /\ dependents = [k \in Keepers |-> <<>>]
    /\ errorListeners \in {{}, Keepers}
    /\ state = [k \in Keepers |-> Prototype]
    /\ base = [k \in Keepers |-> 0]
    /\ instances = [k \in Keepers |-> 0]
    /\ CONSTRUCTION_LOCKER = {}
    /\ INITIALIZATION_LOCKER = {}
    /\ PENDING_STATES = [k \in Keepers |-> "none"]
    /\ tasks = <<>>
    /\ hookLog = <<>>
    /\ reached = {}
    /\ calls = 0
    /\ limit = MaxLinkCalls
    /\ unhandled = {}
    /\ callbacks = <<>>

SpecCycle == InitCycle /\ [][NextLink]_vars

\* ------------------------------------------------ the registry rebuilt again
MaxRepeats == 2

\* the host calls rebuildRegistry() once more, on the tree as it was
RebuildAgain ==
    /\ registry.gen >= 1
    /\ registry.gen < MaxRepeats
    /\ LET L == rebuildRegistry([r |-> registry, dependencies |-> dependencies,
                                 dependents |-> dependents],
                                Discover(tree, registry.gen + 1))
       IN /\ registry' = L.r
          /\ dependencies' = L.dependencies
          /\ dependents' = L.dependents
    /\ tasks' = Compact(tasks, 1)
    /\ hookLog' = <<>>
    /\ unhandled' = PathRejections(tree)
    /\ UNCHANGED <<errorListeners, state, base, instances, CONSTRUCTION_LOCKER,
                   INITIALIZATION_LOCKER, PENDING_STATES, reached, calls, limit, tree,
                   callbacks>>

NextRebuild ==
    \/ RebuildRegistry
    \/ RebuildAgain

SpecRebuild == InitLink /\ [][NextRebuild]_vars

\* ------------------------------------------------ edges added and removed
\* removeFromArray(array, x) of @utils/extensions: the array without the
\* first x
RECURSIVE removeFromArray(_, _)
removeFromArray(q, x) ==
    IF q = <<>> THEN <<>>
    ELSE IF Head(q) = x THEN Tail(q)
    ELSE <<Head(q)>> \o removeFromArray(Tail(q), x)

\* what removeFromArray returns is undefined when x is not in the array
Found(q, x) == \E j \in 1..Len(q) : q[j] = x

\* ModuleBase.removeDependency(dependency) on keeper k: the edges it leaves
\* and how it ends; removeDependent is called on the removed dependency,
\* with the dependency
removeDependency(L, k, d) ==
    IF ~Found(L.dependencies[k], d)
    THEN [L EXCEPT !.result = "CannotFindDependency"]
    ELSE LET L1 == [L EXCEPT !.dependencies[k] = removeFromArray(@, d)]
         IN IF ~Found(L1.dependents[d], d)
            THEN [L1 EXCEPT !.result = "CannotFindDependent"]
            ELSE [L1 EXCEPT !.dependents[d] = removeFromArray(@, d), !.result = "ok"]

\* a turn of the host that leaves the keepers' phases alone
EdgeTurn ==
    /\ calls < limit
    /\ calls' = calls + 1
    /\ tasks' = Compact(tasks, 1)
    /\ unhandled' = {}
    /\ UNCHANGED <<errorListeners, state, base, instances, CONSTRUCTION_LOCKER,
                   INITIALIZATION_LOCKER, PENDING_STATES, reached, limit, tree,
                   registry, callbacks>>

\* the host calls a.addDependency(b)
AddDependency(a, b) ==
    /\ EdgeTurn
    /\ LET L == addDependency([dependencies |-> dependencies, dependents |-> dependents], a, b)
       IN /\ dependencies' = L.dependencies
          /\ dependents' = L.dependents
    /\ hookLog' = <<Event("addDependency", <<a, b>>, "ok")>>

\* the host calls a.removeDependency(b)
RemoveDependency(a, b) ==
    /\ EdgeTurn
    /\ LET L == removeDependency([dependencies |-> dependencies, dependents |-> dependents,
                                  result |-> "none"], a, b)
       IN /\ dependencies' = L.dependencies
          /\ dependents' = L.dependents
          /\ hookLog' = <<Event("removeDependency", <<a, b>>, L.result)>>

NextEdges ==
    \/ RebuildRegistry
    \/ \E a, b \in Range(allKeepers) : AddDependency(a, b)

SpecEdges == InitLink /\ [][NextEdges]_vars

NextRemove ==
    \/ RebuildRegistry
    \/ \E a, b \in Range(allKeepers) : AddDependency(a, b)
    \/ \E a, b \in Range(allKeepers) : RemoveDependency(a, b)

SpecRemove == InitLink /\ [][NextRemove]_vars

\* ------------------------------------------------------------- discovery
\* the "main" of a manifest: absent, a file of the directory, the directory
\* itself, a file of another module, of a directory whose name begins with
\* the name of this one, or a file named by an absolute path
Mains ==
    {[kind |-> "null", segs |-> <<>>],
     IndexJs,
     [kind |-> "rel", segs |-> <<>>],
     [kind |-> "rel", segs |-> <<"..", "d2", "index.js">>],
     [kind |-> "rel", segs |-> <<"..", "d12", "x.js">>],
     [kind |-> "abs", segs |-> <<"etc", "x.js">>]}

\* the manifests of the walk: those of mod-a and mod-b with each main, one
\* whose version does not parse, a mod.yml that is not YAML, and no mod.yml
DiscoveryPool ==
    {[name |-> n, version |-> <<1, 0>>, noAlternatives |-> TRUE, dependencies |-> <<>>,
      main |-> f, yaml |-> "ok"] : n \in {"mod-a", "mod-b"}, f \in Mains}
    \cup {[name |-> "mod-a", version |-> v, noAlternatives |-> TRUE, dependencies |-> <<>>,
           main |-> IndexJs, yaml |-> y] :
              v \in {<<>>, <<1, 0>>}, y \in {"ok", "malformed", "missing"}}

InitDiscovery ==
    /\ tree \in Trees(DiscoveryPool, MaxModules)
    /\ registry = NoRegistry
    /\ dependencies = [k \in Keepers |-> <<>>]
    /\ dependents = [k \in Keepers |-> <<>>]
    /\ errorListeners \in {{}, Keepers}
    /\ state = [k \in Keepers |-> Prototype]
    /\ base = [k \in Keepers |-> 0]
    /\ instances = [k \in Keepers |-> 0]
    /\ CONSTRUCTION_LOCKER = {}
    /\ INITIALIZATION_LOCKER = {}
    /\ PENDING_STATES = [k \in Keepers |-> "none"]
    /\ tasks = <<>>
    /\ hookLog = <<>>
    /\ reached = {}
    /\ calls = 0
    /\ limit = MaxLinkCalls
    /\ unhandled = {}
    /\ callbacks = <<>>

SpecDiscovery == InitDiscovery /\ [][NextLink]_vars

\* ------------------------------------------------------------------- C1
\* C1: in every bulk run the constructor of a keeper is invoked only after the
\* construction of each of its dependencies has finished, and its init hook only
\* after the initialization of each of its dependencies has finished.
C1_DependencyFirst ==
    \A j \in LogIds :
        /\ hookLog[j].ev = "new" =>
              \A d \in Range(dependencies[hookLog[j].k]) : <<"constructed", d>> \in reached
        /\ hookLog[j].ev = "init" =>
              \A d \in Range(dependencies[hookLog[j].k]) : <<"initialized", d>> \in reached

\* ------------------------------------------------------------------- C2
\* C2: whenever the unload hook of a keeper is invoked, every dependent of it was
\* never constructed or has an unload() that has already completed.
C2_DependentFirstUnload ==
    \A j \in LogIds :
        hookLog[j].ev = "unload" =>
            \A a \in Range(dependents[hookLog[j].k]) :
                \/ instances[a] = 0
                \/ /\ ~UnloadInFlight(a)
                   /\ state[a] = Unloaded \/ <<"unloaded", a>> \in reached

\* ------------------------------------------------------------------- C3
\* the call of frame f threw e without writing state or instance or invoking a hook
Rejected(f, e) == f.status = "err" /\ f.err = e /\ ~f.wrote /\ ~f.hooked

\* C3: a phase method called on a keeper in the wrong state throws (construct
\* unless prototyped, initialize unless constructed, unload unless initialized
\* or constructed), and the rejected call writes neither state nor instance and
\* invokes no module hook.
C3_WrongStateRejected ==
    \A t \in TaskIds :
        /\ (tasks[t].fn = "construct" /\ tasks[t].entry # Prototype)
              => Rejected(tasks[t], "NotPrototype")
        /\ (tasks[t].fn = "initialize" /\ tasks[t].entry # Constructed)
              => Rejected(tasks[t], "NotConstructed")
        /\ (tasks[t].fn = "unload" /\ tasks[t].entry \notin {Initialized, Constructed})
              => Rejected(tasks[t], "NotLoaded")

\* a second construct() on a constructed keeper has been rejected
C3_Witness ==
    \E t \in TaskIds : tasks[t].fn = "construct" /\ tasks[t].entry = Constructed
                       /\ tasks[t].status = "err"

\* ------------------------------------------------------------------- C4
\* the constructor of keeper k was invoked in the last turn and threw
CtorThrew(k) ==
    /\ Invoked("new", k)
    /\ \E t \in TaskIds : tasks[t].fn = "construct" /\ tasks[t].k = k /\ Settled(t)
                          /\ tasks[t].status = "err" /\ tasks[t].hooked

\* C4: when the constructor of a keeper throws during constructAll(), the keeper
\* is in Failure, every keeper whose construct() awaits it is still a prototype,
\* and constructAll() does not return normally.
C4_ConstructFailure ==
    \A k \in Keepers :
        CtorThrew(k) =>
            /\ state[k] = Failure
            /\ \A t \in TaskIds :
                  /\ (tasks[t].fn = "construct" /\ tasks[t].status = "await")
                        => state[tasks[t].k] = Prototype
                  /\ tasks[t].fn = "constructAll" => tasks[t].status # "ok"

\* ------------------------------------------------------------------- C5
\* C5: when the init hook of a keeper throws, initialize() throws and the keeper
\* is in Failure.
C5_InitFailure ==
    \A t \in TaskIds :
        (tasks[t].fn = "initialize" /\ tasks[t].hooked /\ Settled(t)
         /\ tasks[t].status = "err")
            => state[tasks[t].k] = Failure

\* ------------------------------------------------------------------- C6
\* the unload hook of keeper k returned a falsy value or threw in the last turn
\* (a turn resumes one frame, so the frame on k that settled in it is that call)
UnloadHookFailed(k) ==
    \E j \in LogIds : hookLog[j] = Event("error", k, "unload#unload")

\* C6: when an unload hook returns a falsy value or throws, the unload() call
\* returns normally without writing state or instance, and unloadAll() never
\* throws.
C6_UnloadBestEffort ==
    \A t \in TaskIds :
        /\ (tasks[t].fn = "unload" /\ tasks[t].hooked /\ UnloadHookFailed(tasks[t].k)
            /\ Settled(t))
              => tasks[t].status = "ok" /\ ~tasks[t].wrote
        /\ tasks[t].fn = "unloadAll" => tasks[t].status # "err"

\* ------------------------------------------------------------------- C7
\* C7: when unload() runs on a keeper (its unload hook is invoked) while a
\* dependent of it is Initialized, the unload hook of the dependent has been
\* invoked before, with the reason "dependent_".
C7_DependentUnloadedFirst ==
    [][\A j \in 1..Len(hookLog') :
          hookLog'[j].ev = "unload" =>
              \A b \in Range(dependents[hookLog'[j].k]) :
                  state[b] = Initialized =>
                      \E i \in 1..(j - 1) : hookLog'[i] = Event("unload", b, "dependent_")]_vars

\* ------------------------------------------------------------------- C8
RECURSIVE DependentsOf(_, _)
DependentsOf(S, n) ==
    IF n = 0 THEN S
    ELSE DependentsOf(S \cup UNION {Range(dependents[x]) : x \in S}, n - 1)

\* the keepers that depend on k, directly or transitively
AllDependents(k) == DependentsOf(Range(dependents[k]), NumKeepers)

\* C8: whenever a keeper has reached Unloaded through unload(), no keeper that
\* depends on it, directly or transitively, is still Constructed or Initialized.
C8_NoDanglingDependents ==
    \A b \in Keepers :
        (state[b] = Unloaded /\ <<"unloaded", b>> \in reached)
            => \A a \in AllDependents(b) : ~Loaded(a)

\* ------------------------------------------------------------------- C9
\* C9: the constructor of a keeper is invoked only when each of its dependencies
\* is Constructed or Initialized and holds an instance, and its init hook only
\* when each of its dependencies is Initialized.
C9_NoUnconstructedDependency ==
    \A j \in LogIds :
        /\ hookLog[j].ev = "new" =>
              \A d \in Range(dependencies[hookLog[j].k]) : Loaded(d) /\ base[d] # 0
        /\ hookLog[j].ev = "init" =>
              \A d \in Range(dependencies[hookLog[j].k]) : state[d] = Initialized

\* ------------------------------------------------------------------ C10
Rank(s) ==
    CASE s = Prototype -> 0
      [] s = Constructed -> 1
      [] s = Initializing -> 2
      [] s = Initialized -> 3
      [] s = Unloaded -> 4
      [] s = Failure -> 5

\* C10: no step takes a keeper from a later state of the chain Prototype,
\* Constructed, Initialized, Unloaded back to an earlier one (a step into
\* Failure is allowed, and steps out of Failure are not constrained here).
C10_ForwardOnly ==
    [][\A k \in Keepers :
          \/ state[k] = Failure
          \/ Rank(state'[k]) >= Rank(state[k])]_vars

\* ------------------------------------------------------------------ C11
\* a call of fn on keeper k is in progress in frame t
InProgress(t, fn) == tasks[t].fn = fn /\ tasks[t].status \in {"await", "hook"}

\* C11: while a construct() call on a keeper is suspended, every other construct()
\* call on that keeper has been refused with an error and has invoked no
\* constructor.
C11_ConstructReentrancy ==
    \A t, u \in TaskIds :
        (t # u /\ InProgress(t, "construct") /\ tasks[u].fn = "construct"
         /\ tasks[u].k = tasks[t].k)
            => tasks[u].status = "err" /\ ~tasks[u].hooked

\* ------------------------------------------------------------------ C12
\* C12: while an initialize() call on a keeper is suspended (on a dependency or
\* in its own init hook), every other initialize() call on that keeper has been
\* refused with the guard's or the locker's error, has written nothing and has
\* invoked no init hook.
C12_InitializeReentrancy ==
    \A t, u \in TaskIds :
        (t # u /\ InProgress(t, "initialize") /\ tasks[u].fn = "initialize"
         /\ tasks[u].k = tasks[t].k)
            => /\ tasks[u].status = "err"
               /\ tasks[u].err \in {"AlreadyInitializing", "NotConstructed"}
               /\ ~tasks[u].hooked /\ ~tasks[u].wrote

\* a second initialize() was refused by the locker while the first is in its hook
C12_Witness ==
    \E t, u \in TaskIds :
        /\ tasks[t].fn = "initialize" /\ tasks[t].status = "hook"
        /\ tasks[u].fn = "initialize" /\ tasks[u].k = tasks[t].k
        /\ tasks[u].status = "err" /\ tasks[u].err = "AlreadyInitializing"

\* ------------------------------------------------------------------ C13
\* the module hooks that have been started and have not finished
HooksInFlight == {t \in TaskIds : tasks[t].status = "hook"}

\* C13: during the bulk operations at most one module hook has been started and
\* has not yet finished.
C13_OneTransitionAtATime == Cardinality(HooksInFlight) <= 1

\* ------------------------------------------------------------------ C14
\* the keepers that _prototypeAll has made
Created == Range(registry.allKeepers)

\* the dependency entries of the manifest of keeper k
Entries(k) == Range(registry.info[k].dependencies)

\* the versions registered under a name
Registered(name) ==
    IF name \in DOMAIN registry.infos
    THEN {registry.infos[name][x].version : x \in 1..Len(registry.infos[name])}
    ELSE {}

\* C14: every dependency edge of a keeper answers an entry of its manifest, the
\* version of the keeper it points to satisfies the range of that entry, and no
\* registered version of that name satisfying the range is higher.
C14_MaxSatisfyingEdge ==
    \A k \in Created : \A d \in Range(dependencies[k]) :
        \E e \in Entries(k) :
            /\ e.name = registry.info[d].name
            /\ satisfies(registry.info[d].version, e.verRange.caret)
            /\ \A v \in Registered(e.name) :
                  satisfies(v, e.verRange.caret) => semverLte(v, registry.info[d].version)

\* an edge was linked where two registered versions satisfy the range
C14_Witness ==
    \E k \in Created : \E d \in Range(dependencies[k]) : \E e \in Entries(k) :
        /\ e.name = registry.info[d].name
        /\ \E v \in Registered(e.name) :
              v # registry.info[d].version /\ satisfies(v, e.verRange.caret)

\* ------------------------------------------------------------------ C15
\* no registered version of the name of entry e satisfies its range
Unmatched(e) == \A v \in Registered(e.name) : ~satisfies(v, e.verRange.caret)

\* C15: when a required dependency entry of a keeper has no satisfying
\* registered version, rebuildRegistry() has thrown; and an error it throws for
\* a dependency that cannot be found or satisfied names a required, unmatched
\* dependency of the keeper it was linking.
C15_UnsatisfiedRequiredThrows ==
    /\ (\E k \in Created : \E e \in Entries(k) : e.verRange.mark = "" /\ Unmatched(e))
          => registry.error # "none"
    /\ registry.error \in {"CannotBeFound", "Unsatisfied"}
          => \E e \in Entries(registry.errorAt) :
                /\ e.name = registry.errorDep
                /\ registry.info[registry.errorAt].name = registry.errorMod
                /\ e.verRange.mark = "" /\ Unmatched(e)

\* rebuildRegistry() has thrown for a name that is registered in another version
C15_Witness ==
    /\ registry.error = "Unsatisfied"
    /\ registry.errorDep = "mod-a"
    /\ Registered("mod-a") # {}

\* ------------------------------------------------------------------ C16
\* C16: an optional dependency entry without a satisfying registered version
\* never makes rebuildRegistry() throw, gives the keeper no edge to or from a
\* keeper of that name, and the construct() of the keeper never awaits the
\* construct() of a keeper of that name.
C16_OptionalUnmatchedSkipped ==
    \A k \in Created : \A e \in Entries(k) :
        (e.verRange.mark = "?" /\ Unmatched(e)) =>
            /\ ~(registry.error \in {"CannotBeFound", "Unsatisfied"}
                 /\ registry.errorAt = k /\ registry.errorDep = e.name)
            /\ \A d \in Created :
                  registry.info[d].name = e.name =>
                      d \notin Range(dependencies[k]) /\ k \notin Range(dependents[d])
            /\ \A t \in TaskIds :
                  (tasks[t].fn = "construct" /\ tasks[t].k = k /\ tasks[t].status = "await")
                      => registry.info[tasks[tasks[t].wait].k].name # e.name

\* a keeper with an unmatched optional dependency was constructed while the
\* registered module of that name is still a prototype
C16_Witness ==
    /\ registry.error = "none"
    /\ \E k \in Created : \E e \in Entries(k) :
          /\ e.verRange.mark = "?" /\ Unmatched(e)
          /\ Invoked("new", k) /\ state[k] = Constructed
          /\ \E d \in Created : registry.info[d].name = e.name /\ state[d] = Prototype

\* ------------------------------------------------------------------ C17
\* C17: after rebuildRegistry() has thrown, no constructor is invoked.
C17_FailedLinkNotUsed ==
    registry.error # "none" => \A j \in LogIds : hookLog[j].ev # "new"

\* ---------------------------------------------------------------- C19
PostEventOf(fn) ==
    CASE fn = "constructAll" -> PostConstruction
      [] fn = "initAll" -> PostInitialization
      [] fn = "unloadAll" -> PostUnload

\* the keepers whose state differs from the one bulk call t found
Changed(T, S, t) == {k \in Keepers : S[k] # T[t].entry[k]}

\* C19: each bulk call on the loader emits a "before" event when it starts and
\* an "after" event when it finishes, and the "after" event carries the number
\* of keepers whose state the call changed.
C19_BulkEvents ==
    [][ /\ calls' = calls + 1 =>
              \E j \in 1..Len(hookLog') :
                  hookLog'[j].ev \in {BeforeConstruction, BeforeInitialization, BeforeUnload}
        /\ \A t \in 1..Len(tasks') :
              (tasks'[t].fn \in {"constructAll", "initAll", "unloadAll"}
                  /\ tasks'[t].fresh /\ tasks'[t].status \in {"ok", "err"})
              => \E j \in 1..Len(hookLog') :
                    /\ hookLog'[j].ev = PostEventOf(tasks'[t].fn)
                    /\ hookLog'[j].k = Cardinality(Changed(tasks', state', t)) ]_vars

\* ---------------------------------------------------------------- C20
\* C20: when unloadAll() has returned, every unload hook it led to has returned
\* true and none is pending, no keeper is left Initialized or Constructed.
C20_UnloadAllLeavesNothingLoaded ==
    \A t \in TaskIds :
        (/\ tasks[t].fn = "unloadAll" /\ Settled(t) /\ tasks[t].status = "ok"
         /\ \A k \in Keepers : <<"unloadFailed", k>> \notin reached
         /\ \A u \in TaskIds : ~(tasks[u].fn = "unload" /\ tasks[u].status = "hook"))
        => \A k \in Keepers : state[k] \notin {Initialized, Constructed}

\* ---------------------------------------------------------------- C18
\* the file lies in the directory (or below it)
InsideDirectory(path, directory) ==
    Len(path) > Len(directory) /\ SubSeq(path, 1, Len(directory)) = directory

\* C18: no keeper exists for a descriptor whose main, once normalized, lies
\* outside the directory its manifest was found in.
C18_NoRecordForEscapedMain ==
    \A k \in Created :
        InsideDirectory(registry.info[k].main, Directory(registry.info[k].oid[2]))

\* ---------------------------------------------------------------- C21
\* a call of fn on keeper k has started and has neither returned nor thrown
Running(fn, k) ==
    \E t \in TaskIds : /\ tasks[t].fn = fn /\ tasks[t].k = k
                       /\ tasks[t].status \notin {"ok", "err"}

\* C21: the pending flag of a keeper is "initialization" (resp. "unload")
\* only while an initialize() (resp. unload()) call on that keeper is in
\* progress; once the call has returned or thrown the flag is clear.
C21_PendingFlagTransient ==
    \A k \in Keepers :
        /\ PENDING_STATES[k] = "initialization" => Running("initialize", k)
        /\ PENDING_STATES[k] = "unload" => Running("unload", k)

\* ---------------------------------------------------------------- C22
\* C22: a construct() call on a keeper that an unload left Unloaded, with no
\* instance, is accepted: it reaches the constructor of the module again.
C22_ReconstructAfterUnload ==
    \A t \in TaskIds :
        (/\ tasks[t].fn = "construct" /\ Settled(t)
         /\ tasks[t].entry = Unloaded
         /\ <<"unloaded", tasks[t].k>> \in reached)
        => tasks[t].hooked

\* ---------------------------------------------------------------- C23
WaitIds == 1..Len(callbacks)

\* C23: a callback handed to onInit on an Initialized keeper has run at once;
\* any other has run at most once, only with the keeper Initialized, and is
\* not left waiting while the keeper is Initialized.
C23_OnInitOneShot ==
    \A w \in WaitIds :
        callbacks[w].ev = "initialized" =>
            /\ callbacks[w].found = Initialized => callbacks[w].runs = 1
            /\ callbacks[w].runs <= 1
            /\ callbacks[w].runs = 1 => callbacks[w].seen = Initialized
            /\ callbacks[w].runs = 0 => state[callbacks[w].k] # Initialized

\* ---------------------------------------------------------------- C24
\* C24: a callback handed to onConstruct on a keeper that is Constructed or
\* Initialized has run at once.
C24_OnConstructAfterConstruction ==
    \A w \in WaitIds :
        (callbacks[w].ev = "constructed" /\ callbacks[w].found \in {Constructed, Initialized})
            => callbacks[w].runs = 1

\* ---------------------------------------------------------------- C25
\* C25: baseCheck(this), called by the module from a hook that was handed
\* the private interface (supplyPrivateInterface, init, unload), succeeds.
C25_BaseCheckOfSelf ==
    \A j \in LogIds : hookLog[j].ev = "baseCheck" => hookLog[j].reason = "true"

\* ---------------------------------------------------------------- C26
\* the directories of the tree whose descriptor repeats the name and version
\* of a descriptor found before it
Repeats == {x \in 1..Len(tree) :
               \E y \in 1..(x - 1) : /\ tree[y].name = tree[x].name
                                      /\ tree[y].version = tree[x].version}

Discovered(n) ==
    discovered(Discover(tree, registry.gen), 1,
               [names |-> <<>>, by |-> <<>>, error |-> "none"]).by[n]

Flagged(d) == SelectSeq(d, LAMBDA x : x.noAlternatives)
Unflagged(d) == SelectSeq(d, LAMBDA x : ~x.noAlternatives)

C28_SingleInstanceAlone ==
    registry.gen > 0 =>
        \A n \in DOMAIN registry.infos :
            Flagged(registry.infos[n]) # <<>> =>
                /\ Len(registry.infos[n]) = 1
                /\ \A x \in Range(Discovered(n)) :
                      semverLte(x.version, registry.infos[n][1].version)

\* ---------------------------------------------------------------- C29
\* C29: a keeper in Failure stays in Failure, and every call of construct(),
\* initialize() or unload() that finds it in Failure throws without writing
\* state or instance and without invoking a hook.
C29_FailureTerminal ==
    [][ /\ \A k \in Keepers : state[k] = Failure => state'[k] = Failure
        /\ \A t \in 1..Len(tasks') :
              (tasks'[t].fn \in {"construct", "initialize", "unload"}
                  /\ tasks'[t].entry = Failure)
              => (tasks'[t].status = "err" /\ ~tasks'[t].wrote /\ ~tasks'[t].hooked) ]_vars

\* ---------------------------------------------------------------- C30
\* the mod.yml of directory x is not YAML, or its version does not parse
Faulty(x) == tree[x].yaml = "malformed" \/ (tree[x].yaml = "ok" /\ tree[x].version = <<>>)

\* directory x holds a manifest that parses, with a version and a main
Sound(x) == tree[x].yaml = "ok" /\ tree[x].version # <<>> /\ tree[x].main.kind # "null"

C31_GuardedHooks ==
    \A j \in LogIds :
        /\ (hookLog[j].ev = "stray:init" /\ ~Running("initialize", hookLog[j].k))
              => hookLog[j].reason # "ran"
        /\ (hookLog[j].ev = "stray:unload" /\ ~Running("unload", hookLog[j].k))
              => hookLog[j].reason # "ran"
        /\ hookLog[j].ev = "guarded" => hookLog[j].reason = "ran"

\* ---------------------------------------------------------------- C32
\* C32: a keeper that is Constructed or Initialized holds an instance (one
\* that passed the test for an unload function), and a construct() whose
\* try block threw, as it does for an instance without unload, has left the
\* keeper in Failure with no instance.
C32_UnloadAlwaysCallable ==
    /\ \A k \in Keepers : state[k] \in {Constructed, Initialized} => base[k] # 0
    /\ \A t \in TaskIds :
          (tasks[t].fn = "construct" /\ Settled(t) /\ tasks[t].hooked
              /\ tasks[t].status = "err")
          => (state[tasks[t].k] = Failure /\ base[tasks[t].k] = 0)

\* ---------------------------------------------------------------- C35
\* C35: a keeper holds an instance exactly when its state is Constructed or
\* Initialized.
C35_InstanceStateCoherence ==
    \A k \in Keepers : base[k] # 0 <=> state[k] \in {Constructed, Initialized}

\* ---------------------------------------------------------------- C33
\* how many times x is in the list q
Count(q, x) == Cardinality({j \in 1..Len(q) : q[j] = x})

\* C33: after a link and after any addDependency calls, B is in the
\* dependencies of A as many times as A is in the dependents of B.
C33_EdgeSymmetry ==
    \A a, b \in Keepers : Count(dependencies[a], b) = Count(dependents[b], a)

\* an edge that the link made was added a second time
C33_Witness ==
    /\ registry.gen > 0 /\ registry.error = "none"
    /\ \E a, b \in Keepers :
          /\ Count(dependencies[a], b) = 2
          /\ \E j \in LogIds : hookLog[j] = Event("addDependency", <<a, b>>, "ok")

\* ---------------------------------------------------------------- C34
\* C34: a.removeDependency(b) on an a that has the dependency b returns
\* without error, takes one b out of the dependencies of a and one a out of
\* the dependents of b, and leaves every other list as it was.
C34_RemoveUndoesAdd ==
    [][\A a, b \in Keepers :
          (/\ Found(dependencies[a], b)
           /\ \E j \in 1..Len(hookLog') :
                 hookLog'[j].ev = "removeDependency" /\ hookLog'[j].k = <<a, b>>)
          => /\ \A j \in 1..Len(hookLog') : hookLog'[j].reason = "ok"
             /\ dependencies' = [dependencies EXCEPT ![a] = removeFromArray(@, b)]
             /\ dependents' = [dependents EXCEPT ![b] = removeFromArray(@, a)] ]_vars

\* ---------------------------------------------------------------- C36
\* C36: the unload hook of a keeper is invoked at most once in the course of
\* one unload() or unloadAll() call: in particular the hooks that one turn of
\* such a call invokes are hooks of different keepers.
C36_UnloadHookOnce ==
    \A i, j \in LogIds :
        (i < j /\ hookLog[i].ev = "unload" /\ hookLog[j].ev = "unload")
            => hookLog[i].k # hookLog[j].k

\* ---------------------------------------------------------------- C37
\* C37: the unload() that an unload starts on a dependent finds the dependent
\* Constructed or Initialized: no call made with the reason "dependent_" ends
\* with "Module is not loaded".
C37_DependentsLoaded ==
    \A t \in TaskIds :
        (tasks[t].fn = "unload" /\ tasks[t].reason = "dependent_")
            => tasks[t].err # "NotLoaded"

\* ---------------------------------------------------------------- C38
\* C38: an initialize() call is refused as "already initializing" only while
\* another initialize() call on the same keeper is in progress.
C38_InitializationLockReleased ==
    \A t \in TaskIds :
        (tasks[t].fn = "initialize" /\ tasks[t].err = "AlreadyInitializing")
            => Running("initialize", tasks[t].k)

C40_RebuildIdempotent ==
    [][(registry.gen >= 1 /\ registry.error = "none" /\ registry'.gen = registry.gen + 1)
          => /\ registry'.error = "none"
             /\ registry'.allKeepers = registry.allKeepers
             /\ registry'.keepers = registry.keepers
             /\ dependencies' = dependencies
             /\ dependents' = dependents]_vars

====
